---- MODULE Spec2Model ----
(***************************************************************************)
(* Schema-migration engine of azat-dev/cubes (package db).                 *)
(*                                                                         *)
(*   migration.go : the action log store (one JSON file per migration)     *)
(*   sync.go      : the transactional sync engine (PostgreSQL via lib/pq)  *)
(*   snapshot builder : GetSnapshotWithAction / GetCurrentSnapshot are     *)
(*                  called by both files but their source is not part of   *)
(*                  the tree; they are modelled from spec.md section 4.2.  *)
(*                                                                         *)
(* Migration ids are second-resolution timestamps "20060102150405": fixed  *)
(* width digit strings, so their lexicographic order is the numeric order  *)
(* of the clock value they were taken from.  Ids are modelled as the clock *)
(* value (1..MaxClock) and the empty id "" as 0.                           *)
(***************************************************************************)
EXTENDS Integers, Sequences, FiniteSets, TLC

\* ---------------------------------------------------------------- bounds
MaxClock == 2
MaxActions == 3
MaxFail == 4
MaxKeyActions == 4
MaxColumnActions == 2
MaxFoldActions == 4

\* ------------------------------------------------------- input universes
Tables == {"users"}
Columns == {"email", "name"}
Descriptions == {"d"}
ColumnTypes == {"text"}
DefaultValues == {"", "x"}
Callers == {"p", "q"}

NoId == 0

\* ------------------------------------------------------------ data model
AddTableParams == {[name |-> t] : t \in Tables}

DeleteTableParams == {[name |-> t] : t \in Tables}

AddColumnParams ==
    [table : Tables, column : Columns, type : ColumnTypes,
     isNullable : BOOLEAN, defaultValue : DefaultValues]

DeleteColumnParams == [table : Tables, column : Columns]

AddPrimaryKeyParams == [table : Tables, column : Columns]

DeletePrimaryKeyParams == [table : Tables, column : Columns]

Action ==
    {[method |-> "addTable", params |-> p] : p \in AddTableParams}
      \cup {[method |-> "deleteTable", params |-> p] : p \in DeleteTableParams}
      \cup {[method |-> "addColumn", params |-> p] : p \in AddColumnParams}
      \cup {[method |-> "deleteColumn", params |-> p] : p \in DeleteColumnParams}
      \cup {[method |-> "addPrimaryKey", params |-> p] : p \in AddPrimaryKeyParams}
      \cup {[method |-> "deletePrimaryKey", params |-> p] : p \in DeletePrimaryKeyParams}

Migration(id, description, actions) ==
    [schemaVersion |-> "1", id |-> id, description |-> description,
     actions |-> actions]

\* ------------------------------------------------------ sequence helpers
RECURSIVE SortedIds(_)
SortedIds(S) ==
    IF S = {} THEN <<>>
    ELSE LET m == CHOOSE x \in S : \A y \in S : x <= y
         IN  <<m>> \o SortedIds(S \ {m})

RECURSIVE Flatten(_)
Flatten(ss) ==
    IF ss = <<>> THEN <<>> ELSE Head(ss) \o Flatten(Tail(ss))

IsPrefix(s, t) ==
    /\ Len(s) <= Len(t)
    /\ \A i \in 1..Len(s) : s[i] = t[i]

Contains(s, x) == \E i \in 1..Len(s) : s[i] = x

Without(s, x) == SelectSeq(s, LAMBDA e : e # x)

\* ----------------------------------------------------- snapshot builder
\* Snapshot: function from the names of the existing tables to
\* [columns : ordered column records, primaryKeys : ordered column names].
EmptySnapshot == [t \in {} |-> 0]

HasColumn(table, c) == \E i \in 1..Len(table.columns) : table.columns[i].name = c

SnapshotPut(snapshot, t, table) ==
    [x \in (DOMAIN snapshot) \cup {t} |-> IF x = t THEN table ELSE snapshot[x]]

SnapshotRemove(snapshot, t) ==
    [x \in (DOMAIN snapshot) \ {t} |-> snapshot[x]]

FoldOk(snapshot) == [err |-> "", snapshot |-> snapshot]

FoldErr(e, snapshot) == [err |-> e, snapshot |-> snapshot]

\* DeleteColumn that leaves the key list alone
ApplyToSnapshotKeepsKey(snapshot, a) ==
    LET p == a.params IN
    CASE a.method = "addTable" ->
           IF p.name \in DOMAIN snapshot THEN FoldErr("ConflictError", snapshot)
           ELSE FoldOk(SnapshotPut(snapshot, p.name,
                                   [columns |-> <<>>, primaryKeys |-> <<>>]))
      [] a.method = "deleteTable" ->
           IF p.name \notin DOMAIN snapshot THEN FoldErr("NotFoundError", snapshot)
           ELSE FoldOk(SnapshotRemove(snapshot, p.name))
      [] a.method = "addColumn" ->
           IF p.table \notin DOMAIN snapshot THEN FoldErr("NotFoundError", snapshot)
           ELSE IF HasColumn(snapshot[p.table], p.column)
           THEN FoldErr("ConflictError", snapshot)
           ELSE FoldOk(SnapshotPut(snapshot, p.table,
                  [snapshot[p.table] EXCEPT !.columns =
                     Append(@, [name |-> p.column, type |-> p.type,
                                nullable |-> p.isNullable,
                                default |-> p.defaultValue])]))
      [] a.method = "deleteColumn" ->
           IF p.table \notin DOMAIN snapshot THEN FoldErr("NotFoundError", snapshot)
           ELSE IF ~HasColumn(snapshot[p.table], p.column)
           THEN FoldErr("NotFoundError", snapshot)
           ELSE FoldOk(SnapshotPut(snapshot, p.table,
                  [columns |-> SelectSeq(snapshot[p.table].columns,
                                         LAMBDA c : c.name # p.column),
                   primaryKeys |-> snapshot[p.table].primaryKeys]))
      [] a.method = "addPrimaryKey" ->
           IF p.table \notin DOMAIN snapshot THEN FoldErr("NotFoundError", snapshot)
           ELSE IF ~HasColumn(snapshot[p.table], p.column)
           THEN FoldErr("NotFoundError", snapshot)
           ELSE IF Contains(snapshot[p.table].primaryKeys, p.column)
           THEN FoldErr("ConflictError", snapshot)
           ELSE FoldOk(SnapshotPut(snapshot, p.table,
                  [snapshot[p.table] EXCEPT !.primaryKeys = Append(@, p.column)]))
      [] a.method = "deletePrimaryKey" ->
           IF p.table \notin DOMAIN snapshot THEN FoldErr("NotFoundError", snapshot)
           ELSE IF ~Contains(snapshot[p.table].primaryKeys, p.column)
           THEN FoldErr("NotFoundError", snapshot)
           ELSE FoldOk(SnapshotPut(snapshot, p.table,
                  [snapshot[p.table] EXCEPT !.primaryKeys = Without(@, p.column)]))
      [] OTHER -> FoldErr("FormatError", snapshot)

ApplyToSnapshot(snapshot, a) ==
    LET p == a.params IN
    CASE a.method = "addTable" ->
           IF p.name \in DOMAIN snapshot THEN FoldErr("ConflictError", snapshot)
           ELSE FoldOk(SnapshotPut(snapshot, p.name,
                                   [columns |-> <<>>, primaryKeys |-> <<>>]))
      [] a.method = "deleteTable" ->
           IF p.name \notin DOMAIN snapshot THEN FoldErr("NotFoundError", snapshot)
           ELSE FoldOk(SnapshotRemove(snapshot, p.name))
      [] a.method = "addColumn" ->
           IF p.table \notin DOMAIN snapshot THEN FoldErr("NotFoundError", snapshot)
           ELSE IF HasColumn(snapshot[p.table], p.column)
           THEN FoldErr("ConflictError", snapshot)
           ELSE FoldOk(SnapshotPut(snapshot, p.table,
                  [snapshot[p.table] EXCEPT !.columns =
                     Append(@, [name |-> p.column, type |-> p.type,
                                nullable |-> p.isNullable,
                                default |-> p.defaultValue])]))
      [] a.method = "deleteColumn" ->
           IF p.table \notin DOMAIN snapshot THEN FoldErr("NotFoundError", snapshot)
           ELSE IF ~HasColumn(snapshot[p.table], p.column)
           THEN FoldErr("NotFoundError", snapshot)
           ELSE FoldOk(SnapshotPut(snapshot, p.table,
                  [columns |-> SelectSeq(snapshot[p.table].columns,
                                         LAMBDA c : c.name # p.column),
                   primaryKeys |-> Without(snapshot[p.table].primaryKeys,
                                           p.column)]))
      [] a.method = "addPrimaryKey" ->
           IF p.table \notin DOMAIN snapshot THEN FoldErr("NotFoundError", snapshot)
           ELSE IF ~HasColumn(snapshot[p.table], p.column)
           THEN FoldErr("NotFoundError", snapshot)
           ELSE IF Contains(snapshot[p.table].primaryKeys, p.column)
           THEN FoldErr("ConflictError", snapshot)
           ELSE FoldOk(SnapshotPut(snapshot, p.table,
                  [snapshot[p.table] EXCEPT !.primaryKeys = Append(@, p.column)]))
      [] a.method = "deletePrimaryKey" ->
           IF p.table \notin DOMAIN snapshot THEN FoldErr("NotFoundError", snapshot)
           ELSE IF ~Contains(snapshot[p.table].primaryKeys, p.column)
           THEN FoldErr("NotFoundError", snapshot)
           ELSE FoldOk(SnapshotPut(snapshot, p.table,
                  [snapshot[p.table] EXCEPT !.primaryKeys = Without(@, p.column)]))
      [] OTHER -> FoldErr("FormatError", snapshot)

RECURSIVE FoldFrom(_, _)
FoldFrom(snapshot, actions) ==
    IF actions = <<>> THEN FoldOk(snapshot)
    ELSE LET r == ApplyToSnapshot(snapshot, Head(actions))
         IN  IF r.err # "" THEN r ELSE FoldFrom(r.snapshot, Tail(actions))

Fold(actions) == FoldFrom(EmptySnapshot, actions)

\* ------------------------------------------------------ action log store
\* dir: the migrations directory, file id -> parsed content of <id>.json
GetList(dir) ==
    LET ids == SortedIds(DOMAIN dir)
    IN  [i \in 1..Len(ids) |-> dir[ids[i]]]

AllActions(migrations) ==
    Flatten([i \in 1..Len(migrations) |-> migrations[i].actions])

\* (b) of section 4.2: the whole current log plus one candidate action
previewWithHypothetical(dir, a) == Fold(Append(AllActions(GetList(dir)), a))

\* the sanity replay of the whole log
GetCurrentSnapshot(dir) == Fold(AllActions(GetList(dir)))

\* (a) of section 4.2: the log up to and excluding action actionIndex
\* (0-based, as the range index of applyMigrationActions) of migrationId
snapshotAsOf(dir, migrationId, actionIndex) ==
    LET migrations == GetList(dir)
        before == SelectSeq(migrations, LAMBDA m : m.id < migrationId)
        own == SelectSeq(migrations, LAMBDA m : m.id = migrationId)
        ownActions == IF own = <<>> THEN <<>>
                      ELSE SubSeq(own[1].actions, 1, actionIndex)
    IN  Fold(AllActions(before) \o ownActions)

WriteFile(dir, id, content) ==
    [x \in (DOMAIN dir) \cup {id} |-> IF x = id THEN content ELSE dir[x]]

\* ---------------------------------------------------------- target store
\* The PostgreSQL database: the bookkeeping table _migrations and the user
\* tables, table name -> [columns, pkey]; pkey is the column list of the
\* constraint named pkey, <<>> when the table has none.  A row of _migrations
\* is kept as its id, the primary key: the engine writes the data column
\* (the serialized migration) and never reads it.
EmptyStore == [hasMigrationsTable |-> FALSE,
               rows |-> {},
               tables |-> [x \in {} |-> 0]]

StoreHasColumn(store, t, c) ==
    /\ t \in DOMAIN store.tables
    /\ \E i \in 1..Len(store.tables[t].columns) : store.tables[t].columns[i].name = c

NoDuplicates(s) == \A i, j \in 1..Len(s) : s[i] = s[j] => i = j

\* whether PostgreSQL accepts statement q in state store
StmtValid(store, q) ==
    CASE q.sql = "CREATE TABLE" -> q.table \notin DOMAIN store.tables
      [] q.sql = "DROP TABLE" -> q.table \in DOMAIN store.tables
      [] q.sql = "ADD COLUMN" ->
           /\ q.table \in DOMAIN store.tables
           /\ ~StoreHasColumn(store, q.table, q.column)
      [] q.sql = "DROP COLUMN" -> StoreHasColumn(store, q.table, q.column)
      [] q.sql = "DROP CONSTRAINT" ->
           /\ q.table \in DOMAIN store.tables
           /\ store.tables[q.table].pkey # <<>>
      [] q.sql = "ADD CONSTRAINT" ->
           /\ q.table \in DOMAIN store.tables
           /\ q.keys # <<>>
           /\ NoDuplicates(q.keys)
           /\ \A i \in 1..Len(q.keys) : StoreHasColumn(store, q.table, q.keys[i])
           /\ \A t \in DOMAIN store.tables : store.tables[t].pkey = <<>>
      [] q.sql = "CREATE TABLE IF NOT EXISTS _migrations" -> TRUE
      [] q.sql = "SELECT id FROM _migrations" -> store.hasMigrationsTable
      [] q.sql = "INSERT INTO _migrations" ->
           /\ store.hasMigrationsTable
           /\ q.id \notin store.rows
      [] OTHER -> FALSE

PutTable(store, t, table) ==
    [store EXCEPT !.tables =
       [x \in (DOMAIN store.tables) \cup {t} |->
          IF x = t THEN table ELSE store.tables[x]]]

\* the effect of an accepted statement
StmtApply(store, q) ==
    CASE q.sql = "CREATE TABLE" ->
           PutTable(store, q.table, [columns |-> <<>>, pkey |-> <<>>])
      [] q.sql = "DROP TABLE" ->
           [store EXCEPT !.tables =
              [x \in (DOMAIN store.tables) \ {q.table} |-> store.tables[x]]]
      [] q.sql = "ADD COLUMN" ->
           PutTable(store, q.table,
             [store.tables[q.table] EXCEPT !.columns =
                Append(@, [name |-> q.column, type |-> q.type,
                           notNull |-> (q.notNullParam = "NOT NULL"),
                           default |-> IF q.defaultValueParam = <<>> THEN ""
                                       ELSE q.defaultValueParam[2]])])
      [] q.sql = "DROP COLUMN" ->
           PutTable(store, q.table,
             [columns |-> SelectSeq(store.tables[q.table].columns,
                                    LAMBDA c : c.name # q.column),
              pkey |-> IF Contains(store.tables[q.table].pkey, q.column)
                       THEN <<>> ELSE store.tables[q.table].pkey])
      [] q.sql = "DROP CONSTRAINT" ->
           PutTable(store, q.table, [store.tables[q.table] EXCEPT !.pkey = <<>>])
      [] q.sql = "ADD CONSTRAINT" ->
           PutTable(store, q.table, [store.tables[q.table] EXCEPT !.pkey = q.keys])
      [] q.sql = "CREATE TABLE IF NOT EXISTS _migrations" ->
           [store EXCEPT !.hasMigrationsTable = TRUE]
      [] q.sql = "INSERT INTO _migrations" ->
           [store EXCEPT !.rows = @ \cup {q.id}]
      [] OTHER -> store

\* ------------------------------------------------------------ transaction
\* tx: the open transaction.  store is its working copy, n counts the
\* statements sent so far, stmts records them, failed is PostgreSQL's
\* "current transaction is aborted" state: once a statement has failed every
\* later statement of the transaction fails, whether or not the caller
\* looked at the error.  fail is the number of the statement that fails for
\* a reason outside the schema (connection, disk, lock), 0 for none.  at is
\* the range index of applyMigrationActions while an action is applied; it
\* is written into the record of every statement.
Begin(store) ==
    [store |-> store, failed |-> FALSE, n |-> 0, stmts |-> <<>>, at |-> 0]

\* what a statement returns: [err, tx], the error and the transaction after it
Executed(tx, migrationId, q, ok) ==
    [err |-> ~ok,
     tx |-> [store |-> IF ok THEN StmtApply(tx.store, q) ELSE tx.store,
             failed |-> tx.failed \/ ~ok,
             n |-> tx.n + 1,
             stmts |-> Append(tx.stmts,
                              [migration |-> migrationId, at |-> tx.at, q |-> q,
                               ok |-> ok]),
             at |-> tx.at]]

Exec(tx, migrationId, q, fail) ==
    Executed(tx, migrationId, q,
             ~tx.failed /\ tx.n + 1 # fail /\ StmtValid(tx.store, q))

\* lib/pq commits unless the transaction is in the failed state, in which
\* case it rolls back and returns ErrInFailedTransaction
CommitOkInFailedTransaction(tx, fail) == tx.n + 1 # fail

CommitOk(tx, fail) == ~tx.failed /\ tx.n + 1 # fail

Commit(committed, tx) == tx.store

RollbackKeepsWork(committed, tx) == tx.store

Rollback(committed, tx) == committed

\* ------------------------------------------------------------ sync engine
\* Every apply* returns [err, tx]: whether it returned an error and the
\* transaction after the statements it sent.
ReturnErr(tx) == [err |-> TRUE, tx |-> tx]

ReturnNil(tx) == [err |-> FALSE, tx |-> tx]

applyAddTable(tx, migrationId, params, fail) ==
    IF params.name = "" THEN ReturnErr(tx)
    ELSE Exec(tx, migrationId, [sql |-> "CREATE TABLE", table |-> params.name],
              fail)

applyDeleteTable(tx, migrationId, params, fail) ==
    IF params.name = "" THEN ReturnErr(tx)
    ELSE Exec(tx, migrationId, [sql |-> "DROP TABLE", table |-> params.name], fail)

\* the test of line 54 turned around
applyAddColumnNotNullIfNullable(tx, migrationId, params, fail) ==
    IF params.table = "" \/ params.column = "" THEN ReturnErr(tx)
    ELSE Exec(tx, migrationId,
              [sql |-> "ADD COLUMN", table |-> params.table,
               column |-> params.column, type |-> params.type,
               notNullParam |-> IF params.isNullable THEN "NOT NULL" ELSE "",
               defaultValueParam |-> IF params.defaultValue # ""
                                     THEN <<"DEFAULT", params.defaultValue>>
                                     ELSE <<>>],
              fail)

applyAddColumn(tx, migrationId, params, fail) ==
    IF params.table = "" \/ params.column = "" THEN ReturnErr(tx)
    ELSE Exec(tx, migrationId,
              [sql |-> "ADD COLUMN", table |-> params.table,
               column |-> params.column, type |-> params.type,
               notNullParam |-> IF ~params.isNullable THEN "NOT NULL" ELSE "",
               defaultValueParam |-> IF params.defaultValue # ""
                                     THEN <<"DEFAULT", params.defaultValue>>
                                     ELSE <<>>],
              fail)

applyDeleteColumn(tx, migrationId, params, fail) ==
    Exec(tx, migrationId,
         [sql |-> "DROP COLUMN", table |-> params.table, column |-> params.column],
         fail)

dropConstraint(tx, migrationId, table, fail) ==
    Exec(tx, migrationId, [sql |-> "DROP CONSTRAINT", table |-> table], fail)

\* the ADD CONSTRAINT that follows the (possible) DROP CONSTRAINT
addConstraint(dropped, migrationId, table, keys, fail) ==
    IF dropped.err THEN dropped
    ELSE Exec(dropped.tx, migrationId,
              [sql |-> "ADD CONSTRAINT", table |-> table, keys |-> keys], fail)

\* applyAddPrimaryKey once the snapshot s is there
addPrimaryKeyWith(tx, s, migrationId, params, fail) ==
    IF s.err # "" THEN ReturnErr(tx)
    ELSE IF params.table \notin DOMAIN s.snapshot THEN ReturnErr(tx)
    ELSE IF ~HasColumn(s.snapshot[params.table], params.column) THEN ReturnErr(tx)
    ELSE addConstraint(IF Len(s.snapshot[params.table].primaryKeys) > 1
                       THEN dropConstraint(tx, migrationId, params.table, fail)
                       ELSE ReturnNil(tx),
                       migrationId, params.table,
                       s.snapshot[params.table].primaryKeys, fail)

applyAddPrimaryKey(tx, dir, migrationId, actionIndex, params, fail) ==
    addPrimaryKeyWith(tx, snapshotAsOf(dir, migrationId, actionIndex), migrationId,
                      params, fail)

\* the loop of lines 166-177 without its continue: the target stays
deletePrimaryKeyKeepsTarget(tx, s, migrationId, params, fail) ==
    IF s.err # "" THEN ReturnErr(tx)
    ELSE IF params.table \notin DOMAIN s.snapshot THEN ReturnErr(tx)
    ELSE addConstraint(dropConstraint(tx, migrationId, params.table, fail),
                       migrationId, params.table,
                       s.snapshot[params.table].primaryKeys, fail)

\* applyDeletePrimaryKey once the snapshot s is there
deletePrimaryKeyWith(tx, s, migrationId, params, fail) ==
    IF s.err # "" THEN ReturnErr(tx)
    ELSE IF params.table \notin DOMAIN s.snapshot THEN ReturnErr(tx)
    ELSE addConstraint(dropConstraint(tx, migrationId, params.table, fail),
                       migrationId, params.table,
                       Without(s.snapshot[params.table].primaryKeys, params.column),
                       fail)

applyDeletePrimaryKey(tx, dir, migrationId, actionIndex, params, fail) ==
    deletePrimaryKeyWith(tx, snapshotAsOf(dir, migrationId, actionIndex),
                         migrationId, params, fail)

applyAction(tx, dir, migrationId, index, action, fail) ==
    CASE action.method = "addTable" ->
           applyAddTable(tx, migrationId, action.params, fail)
      [] action.method = "deleteTable" ->
           applyDeleteTable(tx, migrationId, action.params, fail)
      [] action.method = "addColumn" ->
           applyAddColumn(tx, migrationId, action.params, fail)
      [] action.method = "deleteColumn" ->
           applyDeleteColumn(tx, migrationId, action.params, fail)
      [] action.method = "addPrimaryKey" ->
           applyAddPrimaryKey(tx, dir, migrationId, index, action.params, fail)
      [] action.method = "deletePrimaryKey" ->
           applyDeletePrimaryKey(tx, dir, migrationId, index, action.params, fail)
      [] OTHER -> ReturnNil(tx)

\* the loop of applyMigrationActions: r is what the actions before position
\* index (0-based) returned
RECURSIVE applyActionsFrom(_, _, _, _, _)
applyActionsFrom(r, dir, migration, index, fail) ==
    IF r.err \/ index >= Len(migration.actions) THEN r
    ELSE applyActionsFrom(applyAction([r.tx EXCEPT !.at = index], dir,
                                      migration.id, index,
                                      migration.actions[index + 1], fail),
                          dir, migration, index + 1, fail)

applyMigrationActions(tx, dir, migration, fail) ==
    applyActionsFrom(ReturnNil(tx), dir, migration, 0, fail)

addMigrationsTableIfNotExist(tx, fail) ==
    Exec(tx, NoId, [sql |-> "CREATE TABLE IF NOT EXISTS _migrations"], fail)

MaxOf(S) == CHOOSE x \in S : \A y \in S : y <= x

MinOf(S) == CHOOSE x \in S : \A y \in S : x <= y

\* ORDER BY id DESC LIMIT 1 over the rows the transaction sees; r is what the
\* SELECT returned
ScanDescending(r) ==
    [err |-> r.err, tx |-> r.tx,
     id |-> IF ~r.err /\ r.tx.store.rows # {}
            THEN MaxOf(r.tx.store.rows) ELSE NoId]

ScanAscending(r) ==
    [err |-> r.err, tx |-> r.tx,
     id |-> IF ~r.err /\ r.tx.store.rows # {}
            THEN MinOf(r.tx.store.rows) ELSE NoId]

getCurrentSyncedMigrationIdAscending(tx, fail) ==
    ScanAscending(Exec(tx, NoId, [sql |-> "SELECT id FROM _migrations"], fail))

getCurrentSyncedMigrationId(tx, fail) ==
    ScanDescending(Exec(tx, NoId, [sql |-> "SELECT id FROM _migrations"], fail))

addMigrationToMigrationsTableNoInsert(tx, migration, fail) == ReturnNil(tx)

addMigrationToMigrationsTable(tx, migration, fail) ==
    Exec(tx, migration.id,
         [sql |-> "INSERT INTO _migrations", id |-> migration.id], fail)

\* the two continue statements of the loop of Sync: the migration the
\* marker names, and everything before it, is passed over
skipMigrationAppliesMarker(migration, currentMigrationId, isCurrentMigrationPassed) ==
    ~isCurrentMigrationPassed /\ migration.id # currentMigrationId

skipMigration(migration, currentMigrationId, isCurrentMigrationPassed) ==
    migration.id = currentMigrationId \/ ~isCurrentMigrationPassed

\* The for loop of Sync over migrations[i..]; applied collects the ids handed
\* to applyMigrationActions.  SyncLoopApplied is the part of the body after
\* applyMigrationActions returned r: the result of
\* addMigrationToMigrationsTable is dropped, the err tested after it is
\* still the nil of applyMigrationActions.
RECURSIVE SyncLoop(_, _, _, _, _, _, _, _)
RECURSIVE SyncLoopApplied(_, _, _, _, _, _, _)
SyncLoopApplied(r, dir, migrations, i, currentMigrationId, applied, fail) ==
    IF r.err
    THEN [err |-> TRUE, tx |-> r.tx, applied |-> Append(applied, migrations[i].id)]
    ELSE SyncLoop(addMigrationToMigrationsTable(r.tx, migrations[i], fail).tx,
                  dir, migrations, i + 1, currentMigrationId, TRUE,
                  Append(applied, migrations[i].id), fail)

SyncLoop(tx, dir, migrations, i, currentMigrationId, isCurrentMigrationPassed, applied, fail) ==
    IF i > Len(migrations)
    THEN [err |-> FALSE, tx |-> tx, applied |-> applied]
    ELSE IF skipMigration(migrations[i], currentMigrationId,
                          isCurrentMigrationPassed)
    THEN SyncLoop(tx, dir, migrations, i + 1, currentMigrationId,
                  isCurrentMigrationPassed \/ migrations[i].id = currentMigrationId,
                  applied, fail)
    ELSE SyncLoopApplied(applyMigrationActions(tx, dir, migrations[i], fail),
                         dir, migrations, i, currentMigrationId, applied, fail)

\* What a run of Sync leaves.  outcome: "LogError" and "ConnectError" return
\* before any transaction, "Panic" is transaction.Rollback() on the nil
\* transaction of a failed Begin, "LeftOpen" is a return with neither Commit
\* nor Rollback, "RolledBack" and "Committed" are the two ends of the
\* transaction.
SyncResult(outcome, err, store, markerRead, tx, applied) ==
    [outcome |-> outcome, err |-> err, store |-> store,
     markerRead |-> markerRead, stmts |-> tx.stmts, applied |-> applied]

\* Sync after its loop returned l
SyncAfterLoop(store, markerRead, l, fail) ==
    IF l.err
    THEN SyncResult("RolledBack", TRUE, Rollback(store, l.tx), markerRead, l.tx,
                    l.applied)
    ELSE IF CommitOk(l.tx, fail)
    THEN SyncResult("Committed", FALSE, Commit(store, l.tx), markerRead, l.tx,
                    l.applied)
    ELSE SyncResult("RolledBack", TRUE, Rollback(store, l.tx), markerRead, l.tx,
                    l.applied)

\* Sync without the sanity replay of lines 235-238
SyncAfterMarkerNoReplay(dir, store, t, fail) ==
    IF t.err
    THEN SyncResult("RolledBack", TRUE, Rollback(store, t.tx), NoId, t.tx, <<>>)
    ELSE SyncAfterLoop(store, t.id,
                       SyncLoop(t.tx, dir, GetList(dir), 1, t.id, t.id = NoId,
                                <<>>, fail),
                       fail)

\* Sync after getCurrentSyncedMigrationId returned t
SyncAfterMarker(dir, store, t, fail) ==
    IF t.err
    THEN SyncResult("RolledBack", TRUE, Rollback(store, t.tx), NoId, t.tx, <<>>)
    ELSE IF GetCurrentSnapshot(dir).err # ""
    THEN SyncResult("LeftOpen", TRUE, store, t.id, t.tx, <<>>)
    ELSE SyncAfterLoop(store, t.id,
                       SyncLoop(t.tx, dir, GetList(dir), 1, t.id, t.id = NoId,
                                <<>>, fail),
                       fail)

\* Sync after addMigrationsTableIfNotExist returned t
SyncAfterSetup(dir, store, t, fail) ==
    IF t.err
    THEN SyncResult("RolledBack", TRUE, Rollback(store, t.tx), NoId, t.tx, <<>>)
    ELSE SyncAfterMarker(dir, store, getCurrentSyncedMigrationId(t.tx, fail), fail)

\* Sync that opens the transaction and sets up the bookkeeping table before
\* it reads the log
SyncRunOpensFirst(dir, store, pre, fail) ==
    IF pre = "connect"
    THEN SyncResult("ConnectError", TRUE, store, NoId, Begin(store), <<>>)
    ELSE IF pre = "begin"
    THEN SyncResult("Panic", TRUE, store, NoId, Begin(store), <<>>)
    ELSE IF pre = "getlist"
    THEN SyncResult("RolledBack", TRUE, store, NoId,
                    addMigrationsTableIfNotExist(Begin(store), fail).tx, <<>>)
    ELSE SyncAfterSetup(dir, store,
                        addMigrationsTableIfNotExist(Begin(store), fail), fail)

\* One run of Sync against log directory dir and committed store.  pre is
\* the fault met before the transaction exists ("none", "getlist",
\* "connect", "begin"), fail the number of the statement that fails.
SyncRun(dir, store, pre, fail) ==
    IF pre = "getlist"
    THEN SyncResult("LogError", TRUE, store, NoId, Begin(store), <<>>)
    ELSE IF pre = "connect"
    THEN SyncResult("ConnectError", TRUE, store, NoId, Begin(store), <<>>)
    ELSE IF pre = "begin"
    THEN SyncResult("Panic", TRUE, store, NoId, Begin(store), <<>>)
    ELSE SyncAfterSetup(dir, store,
                        addMigrationsTableIfNotExist(Begin(store), fail), fail)

\* -------------------------------------------------- log store operations
\* AddMigration writes <id>.json with ioutil.WriteFile, which truncates a
\* file that already exists; fault "write" is a directory that cannot be
\* written.
AddMigrationResult(dir, now, description, fault) ==
    IF fault = "write" THEN [err |-> "IOError", id |-> NoId, dir |-> dir]
    ELSE [err |-> "", id |-> now,
          dir |-> WriteFile(dir, now, Migration(now, description, <<>>))]

\* the tail of addActionToMigrationFile: append to the last element of the
\* list read at the start of the call and rewrite that migration's file
AppendWriteResultOnlyNew(dir, lastMigration, action, fault) ==
    IF fault = "write"
    THEN [err |-> "can't write migration", id |-> NoId, dir |-> dir]
    ELSE [err |-> "", id |-> lastMigration.id,
          dir |-> WriteFile(dir, lastMigration.id,
                            [lastMigration EXCEPT !.actions = <<action>>])]

AppendWriteResult(dir, lastMigration, action, fault) ==
    IF fault = "write"
    THEN [err |-> "can't write migration", id |-> NoId, dir |-> dir]
    ELSE [err |-> "", id |-> lastMigration.id,
          dir |-> WriteFile(dir, lastMigration.id,
                            [lastMigration EXCEPT !.actions = Append(@, action)])]

\* writes first and validates afterwards
addActionWriteFirst(dir, action, fault) ==
    LET migrations == GetList(dir) IN
    IF fault = "getlist"
    THEN [err |-> "can't get migration", id |-> NoId, dir |-> dir]
    ELSE IF Len(migrations) = 0
    THEN [err |-> "migration doesn't exist", id |-> NoId, dir |-> dir]
    ELSE LET w == AppendWriteResult(dir, migrations[Len(migrations)], action, fault)
         IN  IF w.err = "" /\ previewWithHypothetical(dir, action).err # ""
             THEN [w EXCEPT !.err = previewWithHypothetical(dir, action).err,
                            !.id = NoId]
             ELSE w

\* no test of the list size: the zero Migration is taken as the last one
addActionNoSizeCheck(dir, action, fault) ==
    LET migrations == GetList(dir)
        lastMigration == IF Len(migrations) = 0 THEN Migration(NoId, "", <<>>)
                         ELSE migrations[Len(migrations)]
    IN
    IF fault = "getlist"
    THEN [err |-> "can't get migration", id |-> NoId, dir |-> dir]
    ELSE IF previewWithHypothetical(dir, action).err # ""
    THEN [err |-> previewWithHypothetical(dir, action).err, id |-> NoId,
          dir |-> dir]
    ELSE AppendWriteResult(dir, lastMigration, action, fault)

\* validates the candidate against the latest migration alone
addActionValidatesLastOnly(dir, action, fault) ==
    LET migrations == GetList(dir) IN
    IF fault = "getlist"
    THEN [err |-> "can't get migration", id |-> NoId, dir |-> dir]
    ELSE IF Len(migrations) = 0
    THEN [err |-> "migration doesn't exist", id |-> NoId, dir |-> dir]
    ELSE IF Fold(Append(migrations[Len(migrations)].actions, action)).err # ""
    THEN [err |-> Fold(Append(migrations[Len(migrations)].actions, action)).err,
          id |-> NoId, dir |-> dir]
    ELSE AppendWriteResult(dir, migrations[Len(migrations)], action, fault)

addActionToMigrationFile(dir, action, fault) ==
    LET migrations == GetList(dir) IN
    IF fault = "getlist"
    THEN [err |-> "can't get migration", id |-> NoId, dir |-> dir]
    ELSE IF Len(migrations) = 0
    THEN [err |-> "migration doesn't exist", id |-> NoId, dir |-> dir]
    ELSE IF previewWithHypothetical(dir, action).err # ""
    THEN [err |-> previewWithHypothetical(dir, action).err, id |-> NoId,
          dir |-> dir]
    ELSE AppendWriteResult(dir, migrations[Len(migrations)], action, fault)

\* Reading one migration.  The bytes of <id>.json are what json.MarshalIndent
\* wrote, modelled as the value between its braces; fault "truncated" is a
\* file that exists and was cut short by something else than the engine.
ReadFaults == {"none", "truncated"}

Marshal(migration) == <<"{", migration, "}">>

Unmarshal(bytes) ==
    IF Len(bytes) = 3 /\ bytes[1] = "{" /\ bytes[3] = "}"
    THEN [err |-> "", value |-> bytes[2]]
    ELSE [err |-> "unexpected end of JSON input",
          value |-> Migration(NoId, "", <<>>)]

ReadFile(dir, id, fault) ==
    IF id \notin DOMAIN dir
    THEN [err |-> "no such file or directory", bytes |-> <<>>]
    ELSE IF fault = "truncated" THEN [err |-> "", bytes |-> <<"{">>]
    ELSE [err |-> "", bytes |-> Marshal(dir[id])]

\* GetText returns string(migration), nil: the error of ReadFile is dropped
GetText(dir, id, fault) ==
    [err |-> "", text |-> ReadFile(dir, id, fault).bytes]

\* Get returns [err, id]: the error and the id of the Migration returned,
\* NoId with the nil pointer
GetParsed(u) ==
    IF u.err # ""
    THEN [err |-> "can't parse migration: " \o u.err, id |-> NoId]
    ELSE [err |-> "", id |-> u.value.id]

Get(dir, id, fault) ==
    IF GetText(dir, id, fault).err # ""
    THEN [err |-> GetText(dir, id, fault).err, id |-> NoId]
    ELSE GetParsed(Unmarshal(GetText(dir, id, fault).text))

\* ------------------------------------------------------------------ state
VARIABLES
    clock,   \* time.Now() in seconds
    dir,     \* the migrations directory
    store,   \* the committed state of the target database
    last,    \* the call that returned last, with what it returned
    pc,      \* per caller: where its addActionToMigrationFile call stands
    local    \* per caller: the locals of that call

vars == <<clock, dir, store, last, pc, local>>

NoCall == [op |-> "none", err |-> "", id |-> NoId,
           outcome |-> "", markerRead |-> NoId, stmts |-> <<>>,
           applied |-> <<>>]

LogCall(op, r) == [NoCall EXCEPT !.op = op, !.err = r.err, !.id = r.id]

SyncCall(r) ==
    [NoCall EXCEPT !.op = "sync", !.err = IF r.err THEN "error" ELSE "",
                   !.outcome = r.outcome, !.markerRead = r.markerRead,
                   !.stmts = r.stmts, !.applied = r.applied]

NoLocals == [lastMigration |-> <<>>, action |-> <<>>]

Init ==
    /\ clock = 1
    /\ dir = [x \in {} |-> 0]
    /\ store = EmptyStore
    /\ last = NoCall
    /\ pc = [c \in Callers |-> "idle"]
    /\ local = [c \in Callers |-> NoLocals]

LogFaults == {"none", "getlist", "write"}
PreFaults == {"none", "getlist", "connect", "begin"}
FailPoints == 0..MaxFail

\* the actions the callers of the checked runs ask for
LogInputs ==
    {a \in Action :
       /\ a.method \notin {"addTable", "deleteTable"} => a.params.column = "email"
       /\ a.method = "addColumn" =>
            (a.params.isNullable /\ a.params.defaultValue = "")}

RaceInputs == {a \in Action : a.method \in {"addTable", "deleteTable"}}

LogSize == Len(AllActions(GetList(dir)))

\* a second passes
Tick ==
    /\ clock < MaxClock
    /\ clock' = clock + 1
    /\ UNCHANGED <<dir, store, last, pc, local>>

CreateMigration(description, fault) ==
    LET r == AddMigrationResult(dir, clock, description, fault) IN
    /\ dir' = r.dir
    /\ last' = LogCall("create", r)
    /\ UNCHANGED <<clock, store, pc, local>>

AppendAction(action, fault) ==
    LET r == addActionToMigrationFile(dir, action, fault) IN
    /\ LogSize < MaxActions
    /\ dir' = r.dir
    /\ last' = LogCall("append", r)
    /\ UNCHANGED <<clock, store, pc, local>>

\* Sync returned r
SyncReturns(r) ==
    /\ store' = r.store
    /\ last' = SyncCall(r)
    /\ UNCHANGED <<clock, dir, pc, local>>

Sync(pre, fail) == SyncReturns(SyncRun(dir, store, pre, fail))

Next ==
    \/ Tick
    \/ \E d \in Descriptions, f \in {"none", "write"} : CreateMigration(d, f)
    \/ \E a \in LogInputs, f \in LogFaults : AppendAction(a, f)
    \/ \E pre \in PreFaults \ {"none"} : Sync(pre, 0)
    \/ \E fail \in FailPoints : Sync("none", fail)

Spec == Init /\ [][Next]_vars

\* ------------------------------------------- unserialized callers (races)
\* addActionToMigrationFile of caller c split at its three file accesses:
\* GetList (line 186), the log read inside GetSnapshotWithAction (line 196)
\* and WriteFile (line 213).
AppendRead(c, action) ==
    /\ pc[c] = "idle"
    /\ LogSize + Cardinality({x \in Callers : pc[x] # "idle"}) < MaxActions
    /\ IF Len(GetList(dir)) = 0
       THEN /\ last' = LogCall("append",
                               [err |-> "migration doesn't exist", id |-> NoId])
            /\ UNCHANGED <<pc, local>>
       ELSE /\ pc' = [pc EXCEPT ![c] = "listed"]
            /\ local' = [local EXCEPT ![c] =
                           [lastMigration |-> GetList(dir)[Len(GetList(dir))],
                            action |-> action]]
            /\ UNCHANGED last
    /\ UNCHANGED <<clock, dir, store>>

AppendValidate(c) ==
    /\ pc[c] = "listed"
    /\ LET e == previewWithHypothetical(dir, local[c].action).err IN
       IF e # ""
       THEN /\ last' = LogCall("append", [err |-> e, id |-> NoId])
            /\ pc' = [pc EXCEPT ![c] = "idle"]
            /\ local' = [local EXCEPT ![c] = NoLocals]
       ELSE /\ pc' = [pc EXCEPT ![c] = "validated"]
            /\ UNCHANGED <<last, local>>
    /\ UNCHANGED <<clock, dir, store>>

AppendWrite(c) ==
    /\ pc[c] = "validated"
    /\ LET r == AppendWriteResult(dir, local[c].lastMigration, local[c].action,
                                  "none")
       IN  /\ dir' = r.dir
           /\ last' = LogCall("append", r)
    /\ pc' = [pc EXCEPT ![c] = "idle"]
    /\ local' = [local EXCEPT ![c] = NoLocals]
    /\ UNCHANGED <<clock, store>>

NextRace ==
    \/ Tick
    \/ \E d \in Descriptions : CreateMigration(d, "none")
    \/ \E c \in Callers, a \in RaceInputs : AppendRead(c, a)
    \/ \E c \in Callers : AppendValidate(c)
    \/ \E c \in Callers : AppendWrite(c)
    \/ Sync("none", 0)

SpecRace == Init /\ [][NextRace]_vars

\* the unserialized callers and Sync within one second of the clock
NextReplay ==
    \/ \E d \in Descriptions : CreateMigration(d, "none")
    \/ \E c \in Callers, a \in RaceInputs : AppendRead(c, a)
    \/ \E c \in Callers : AppendValidate(c)
    \/ \E c \in Callers : AppendWrite(c)
    \/ \E fail \in FailPoints : Sync("none", fail)

SpecReplay == Init /\ [][NextReplay]_vars

\* ------------------------------------------------- reading one migration
GetMigration(id, fault) ==
    /\ last' = LogCall("get", Get(dir, id, fault))
    /\ UNCHANGED <<clock, dir, store, pc, local>>

NextRead ==
    \/ Tick
    \/ \E d \in Descriptions : CreateMigration(d, "none")
    \/ \E a \in LogInputs : AppendAction(a, "none")
    \/ \E id \in 1..MaxClock, f \in ReadFaults : GetMigration(id, f)

SpecRead == Init /\ [][NextRead]_vars

\* ------------------------------------- a directory the engine does not own
\* The migrations directory is a plain directory of files: <id>.json is
\* removed by something else than the engine (the engine never deletes).
RemoveFile(id) ==
    /\ id \in DOMAIN dir
    /\ dir' = [x \in (DOMAIN dir) \ {id} |-> dir[x]]
    /\ UNCHANGED <<clock, store, last, pc, local>>

NextForeign ==
    \/ Tick
    \/ \E d \in Descriptions : CreateMigration(d, "none")
    \/ \E a \in LogInputs : AppendAction(a, "none")
    \/ \E id \in 1..MaxClock : RemoveFile(id)
    \/ Sync("none", 0)

SpecForeign == Init /\ [][NextForeign]_vars

\* ------------------------------------------------- primary keys of a table
\* The runs start where CreateMigration, three appends and a Sync lead: M1
\* holds table users with columns email and name and is synced.  From there
\* the callers add and delete primary keys.
KeysLog ==
    <<[method |-> "addTable", params |-> [name |-> "users"]],
      [method |-> "addColumn",
       params |-> [table |-> "users", column |-> "email", type |-> "text",
                   isNullable |-> TRUE, defaultValue |-> ""]],
      [method |-> "addColumn",
       params |-> [table |-> "users", column |-> "name", type |-> "text",
                   isNullable |-> TRUE, defaultValue |-> ""]]>>

RECURSIVE AppendAll(_, _)
AppendAll(d, actions) ==
    IF actions = <<>> THEN d
    ELSE AppendAll(addActionToMigrationFile(d, Head(actions), "none").dir,
                   Tail(actions))

KeysDir ==
    AppendAll(AddMigrationResult([x \in {} |-> 0], 1, "d", "none").dir, KeysLog)

InitKeys ==
    /\ clock = 1
    /\ dir = KeysDir
    /\ store = SyncRun(KeysDir, EmptyStore, "none", 0).store
    /\ last = NoCall
    /\ pc = [c \in Callers |-> "idle"]
    /\ local = [c \in Callers |-> NoLocals]

KeyInputs == {a \in Action : a.method \in {"addPrimaryKey", "deletePrimaryKey"}}

AppendKeyAction(action) ==
    LET r == addActionToMigrationFile(dir, action, "none") IN
    /\ LogSize < Len(KeysLog) + MaxKeyActions
    /\ dir' = r.dir
    /\ last' = LogCall("append", r)
    /\ UNCHANGED <<clock, store, pc, local>>

NextKeys ==
    \/ Tick
    \/ \E d \in Descriptions : CreateMigration(d, "none")
    \/ \E a \in KeyInputs : AppendKeyAction(a)
    \/ Sync("none", 0)

SpecKeys == InitKeys /\ [][NextKeys]_vars

\* ---------------------------------------------------- columns of a table
\* The runs start where CreateMigration and AddTable(users) lead; from there
\* the callers add columns of every nullability and default.
ColumnsDir ==
    AppendAll(AddMigrationResult([x \in {} |-> 0], 1, "d", "none").dir,
              <<[method |-> "addTable", params |-> [name |-> "users"]]>>)

InitColumns ==
    /\ clock = 1
    /\ dir = ColumnsDir
    /\ store = EmptyStore
    /\ last = NoCall
    /\ pc = [c \in Callers |-> "idle"]
    /\ local = [c \in Callers |-> NoLocals]

ColumnInputs == {a \in Action : a.method = "addColumn"}

AppendColumnAction(action) ==
    LET r == addActionToMigrationFile(dir, action, "none") IN
    /\ LogSize < Len(AllActions(GetList(ColumnsDir))) + MaxColumnActions
    /\ dir' = r.dir
    /\ last' = LogCall("append", r)
    /\ UNCHANGED <<clock, store, pc, local>>

NextColumns ==
    \/ Tick
    \/ \E d \in Descriptions : CreateMigration(d, "none")
    \/ \E a \in ColumnInputs : AppendColumnAction(a)
    \/ Sync("none", 0)

SpecColumns == InitColumns /\ [][NextColumns]_vars

\* ------------------------------------------------- the fold of the actions
\* The accepted action sequences: from the log of table users with columns
\* email and name, every action the append-time fold lets through.
FoldInputs ==
    {a \in Action :
       a.method = "addColumn" => (a.params.isNullable /\ a.params.defaultValue = "")}

AppendFoldAction(action) ==
    LET r == addActionToMigrationFile(dir, action, "none") IN
    /\ LogSize < Len(KeysLog) + MaxFoldActions
    /\ dir' = r.dir
    /\ last' = LogCall("append", r)
    /\ UNCHANGED <<clock, store, pc, local>>

NextFold == \E a \in FoldInputs : AppendFoldAction(a)

SpecFold == InitKeys /\ [][NextFold]_vars

TypeOK ==
    /\ clock \in 1..MaxClock
    /\ DOMAIN dir \subseteq 1..MaxClock
    /\ last.op \in {"none", "create", "append", "sync", "get"}

\* ------------------------------------------------------------ properties
IsSync == \E pre \in PreFaults, fail \in FailPoints : Sync(pre, fail)

IsAppend == \E a \in LogInputs, f \in LogFaults : AppendAction(a, f)

IsSchemaDdl(e) == e.migration # NoId /\ e.q.sql # "INSERT INTO _migrations"

IsInsert(e) == e.q.sql = "INSERT INTO _migrations"

SchemaDdl(stmts) == SelectSeq(stmts, IsSchemaDdl)

Inserts(stmts) == SelectSeq(stmts, IsInsert)

Greatest(S) == CHOOSE x \in S : \A y \in S : y <= x

Marker(s) == IF s.rows = {} THEN NoId ELSE Greatest(s.rows)

\* the schema of the store in the shape of a snapshot
StoreSchema(s) ==
    [t \in DOMAIN s.tables |->
       [columns |-> [i \in 1..Len(s.tables[t].columns) |->
                       [name |-> s.tables[t].columns[i].name,
                        type |-> s.tables[t].columns[i].type,
                        nullable |-> ~s.tables[t].columns[i].notNull,
                        default |-> s.tables[t].columns[i].default]],
        primaryKeys |-> s.tables[t].pkey]]

\* C1: a Sync run in which the DDL of an action fails ends rolled back with
\* an error, and the committed store (schema and bookkeeping rows) is what it
\* was before the run, whatever succeeded earlier in the run.
C1_SyncAtomicity ==
    [][(/\ last'.op = "sync"
        /\ \E i \in 1..Len(last'.stmts) :
             IsSchemaDdl(last'.stmts[i]) /\ ~last'.stmts[i].ok)
       => (/\ last'.outcome = "RolledBack"
           /\ last'.err # ""
           /\ store' = store)]_vars

\* a run whose first pending migration was applied and booked and whose
\* second pending migration then failed
C1_Witness ==
    /\ last.op = "sync"
    /\ last.outcome = "RolledBack"
    /\ \E i, j, k \in 1..Len(last.stmts) :
         /\ i < j /\ j < k
         /\ IsSchemaDdl(last.stmts[i]) /\ last.stmts[i].ok
         /\ IsInsert(last.stmts[j]) /\ last.stmts[j].ok
         /\ IsSchemaDdl(last.stmts[k]) /\ ~last.stmts[k].ok
         /\ last.stmts[k].migration # last.stmts[i].migration
    /\ store.tables = EmptyStore.tables

\* C2: right after a Sync that commits, the schema of the store (tables,
\* columns, primary-key columns) is the snapshot of the whole current log.
C2_CommittedStoreMatchesLog ==
    (last.op = "sync" /\ last.outcome = "Committed")
      => StoreSchema(store) = GetCurrentSnapshot(dir).snapshot

\* C3: a run applies exactly the migrations whose id is greater than the
\* marker, in ascending id order (a run that fails stops inside that order),
\* and sends no statement for a migration at or below the marker.
PendingIds(d, marker) == SelectSeq(SortedIds(DOMAIN d), LAMBDA id : id > marker)

C3_MarkerPartition ==
    [][IsSync =>
         LET pending == PendingIds(dir, Marker(store)) IN
         /\ IsPrefix(last'.applied, pending)
         /\ last'.outcome = "Committed" => last'.applied = pending
         /\ \A i \in 1..Len(last'.stmts) :
              last'.stmts[i].migration # NoId
                => last'.stmts[i].migration > Marker(store)
         /\ \A i, j \in 1..Len(last'.stmts) :
              i < j => last'.stmts[i].migration <= last'.stmts[j].migration
         /\ last'.outcome = "Committed" =>
              \A m \in DOMAIN dir :
                m > Marker(store) =>
                  Len(SelectSeq(SchemaDdl(last'.stmts),
                                LAMBDA e : e.migration = m))
                    >= Len(dir[m].actions)]_vars

\* marker = M1, log [M1, M2]: only the actions of M2 were executed
C3_Witness ==
    /\ last.op = "sync"
    /\ last.outcome = "Committed"
    /\ DOMAIN dir = {1, 2}
    /\ dir[1].actions # <<>>
    /\ last.markerRead = 1
    /\ last.applied = <<2>>
    /\ SchemaDdl(last.stmts) # <<>>
    /\ \A i \in 1..Len(last.stmts) : last.stmts[i].migration \in {NoId, 2}

\* C4: a Sync that follows a committed Sync on the same log sends no schema
\* DDL and no bookkeeping insert and leaves the store (schema, rows, marker)
\* as it is.
C4_SecondSyncIsNoOp ==
    [][(last.op = "sync" /\ last.outcome = "Committed" /\ IsSync)
         => (/\ SchemaDdl(last'.stmts) = <<>>
             /\ Inserts(last'.stmts) = <<>>
             /\ store' = store
             /\ Marker(store') = Marker(store))]_vars

\* a committed run that found the marker at the head of a log with actions,
\* on a store that has the tables, and executed nothing
C4_Witness ==
    /\ last.op = "sync"
    /\ last.outcome = "Committed"
    /\ DOMAIN dir # {}
    /\ last.markerRead = Greatest(DOMAIN dir)
    /\ AllActions(GetList(dir)) # <<>>
    /\ DOMAIN store.tables # {}
    /\ SchemaDdl(last.stmts) = <<>>
    /\ Inserts(last.stmts) = <<>>

\* C5: the marker never decreases, it changes only in a step of a Sync that
\* commits, and the bookkeeping inserts of a run carry strictly ascending ids,
\* all greater than the marker the store had when the run started.
C5_MarkerMonotone ==
    [][/\ Marker(store') >= Marker(store)
       /\ Marker(store') # Marker(store)
            => (last'.op = "sync" /\ last'.outcome = "Committed")
       /\ IsSync =>
            LET ins == Inserts(last'.stmts) IN
            /\ \A i \in 1..Len(ins) : ins[i].q.id > Marker(store)
            /\ \A i, j \in 1..Len(ins) : i < j => ins[i].q.id < ins[j].q.id]_vars

\* a committed run that started from marker M1 and booked M2, after an earlier
\* run had booked M1
C5_Witness ==
    /\ last.op = "sync"
    /\ last.outcome = "Committed"
    /\ last.markerRead = 1
    /\ Len(Inserts(last.stmts)) = 1
    /\ Inserts(last.stmts)[1].q.id = 2
    /\ Marker(store) = 2
    /\ store.rows = {1, 2}

\* C6: an AppendAction whose candidate makes the fold of the whole log plus
\* the candidate fail returns an error and leaves every migration file as it
\* was.
C6_FailedValidationWritesNothing ==
    [][\A a \in LogInputs, f \in LogFaults :
         (AppendAction(a, f) /\ previewWithHypothetical(dir, a).err # "")
           => (last'.err # "" /\ last'.id = NoId /\ dir' = dir)]_vars

\* a rejected append on a log that already holds actions
C6_Witness ==
    /\ last.op = "append"
    /\ last.err \in {"ConflictError", "NotFoundError"}
    /\ AllActions(GetList(dir)) # <<>>

\* C7: AppendAction on a log without migrations returns an error, creates no
\* migration and leaves the directory empty.
C7_AppendNeedsMigration ==
    [][(IsAppend /\ DOMAIN dir = {})
         => (last'.err # "" /\ last'.id = NoId /\ dir' = dir)]_vars

\* the append refused for want of a migration
C7_Witness ==
    /\ last.op = "append"
    /\ last.err = "migration doesn't exist"
    /\ DOMAIN dir = {}

\* C8: a successful AppendAction returns the greatest migration id, puts its
\* action at the end of that migration's list and changes nothing else: not
\* the id, description or earlier actions of that migration, no other file.
C8_AppendFrame ==
    [][\A a \in LogInputs, f \in LogFaults :
         (AppendAction(a, f) /\ last'.err = "")
           => /\ DOMAIN dir # {}
              /\ DOMAIN dir' = DOMAIN dir
              /\ last'.id = Greatest(DOMAIN dir)
              /\ dir'[last'.id] = [dir[last'.id] EXCEPT !.actions = Append(@, a)]
              /\ \A m \in DOMAIN dir : m # last'.id => dir'[m] = dir[m]]_vars

\* a successful append to M2 that already had an action, next to a non-empty M1
C8_Witness ==
    /\ last.op = "append"
    /\ last.err = ""
    /\ last.id = 2
    /\ DOMAIN dir = {1, 2}
    /\ dir[1].actions # <<>>
    /\ Len(dir[2].actions) = 2

\* C9: the log is append-only: no step removes a migration, and every
\* migration's action list in the next state extends its present one; this
\* covers CreateMigration in the second of an existing migration.
C9_LogAppendOnly ==
    [][\A m \in DOMAIN dir :
         /\ m \in DOMAIN dir'
         /\ IsPrefix(dir[m].actions, dir'[m].actions)]_vars

\* C10: a Sync run that opened its transaction (it sent a statement) ends
\* with the transaction committed or rolled back.
C10_SyncEndsTransaction ==
    (last.op = "sync" /\ last.stmts # <<>>)
      => last.outcome \in {"Committed", "RolledBack"}

\* C11: a Sync run in which a bookkeeping insert fails ends rolled back with
\* an error and leaves the committed store (schema and rows) as it was; a run
\* that commits has sent one successful insert for every migration it applied
\* and the committed store holds their rows.
C11_InsertFailureRollsBack ==
    [][IsSync =>
         /\ (\E i \in 1..Len(last'.stmts) :
               IsInsert(last'.stmts[i]) /\ ~last'.stmts[i].ok)
              => (/\ last'.outcome = "RolledBack"
                  /\ last'.err # ""
                  /\ store' = store)
         /\ last'.outcome = "Committed"
              => (/\ Len(Inserts(last'.stmts)) = Len(last'.applied)
                  /\ \A k \in 1..Len(last'.applied) :
                       /\ Inserts(last'.stmts)[k].q.id = last'.applied[k]
                       /\ Inserts(last'.stmts)[k].ok
                       /\ last'.applied[k] \in store'.rows)]_vars

\* a run that created a table for its pending migration, failed to book the
\* migration and was rolled back: neither the table nor a row is there
C11_Witness ==
    /\ last.op = "sync"
    /\ last.outcome = "RolledBack"
    /\ last.err # ""
    /\ \E i, j \in 1..Len(last.stmts) :
         /\ i < j
         /\ IsSchemaDdl(last.stmts[i]) /\ last.stmts[i].ok
         /\ IsInsert(last.stmts[j]) /\ ~last.stmts[j].ok
         /\ last.stmts[j].migration = last.stmts[i].migration
    /\ store.tables = EmptyStore.tables
    /\ store.rows = {}

\* C12: a Sync run on a log that does not replay returns an error having
\* executed no DDL statement at all on the target store and applied no
\* migration.
IsDdl(e) ==
    e.q.sql \notin {"SELECT id FROM _migrations", "INSERT INTO _migrations"}

C12_NoDdlBeforeReplay ==
    [][(IsSync /\ GetCurrentSnapshot(dir).err # "")
         => (/\ last'.err # ""
             /\ \A i \in 1..Len(last'.stmts) : ~IsDdl(last'.stmts[i])
             /\ last'.applied = <<>>)]_vars

\* C12 as amended: such a run returns an error having executed no statement
\* of a log action and no bookkeeping insert, applied no migration and
\* changed nothing in the committed store; the statements it sent are at most
\* CREATE TABLE IF NOT EXISTS _migrations and the marker SELECT.
C12_NoActionDdlBeforeReplay ==
    [][(IsSync /\ GetCurrentSnapshot(dir).err # "")
         => (/\ last'.err # ""
             /\ SchemaDdl(last'.stmts) = <<>>
             /\ Inserts(last'.stmts) = <<>>
             /\ \A i \in 1..Len(last'.stmts) :
                  last'.stmts[i].q.sql \in
                    {"CREATE TABLE IF NOT EXISTS _migrations",
                     "SELECT id FROM _migrations"}
             /\ last'.applied = <<>>
             /\ store' = store)]_vars

\* a run that got as far as the sanity replay of a log that does not replay,
\* with a pending migration that holds an action
C12_Witness ==
    /\ last.op = "sync"
    /\ last.err # ""
    /\ GetCurrentSnapshot(dir).err # ""
    /\ Len(last.stmts) = 2
    /\ last.stmts[2].q.sql = "SELECT id FROM _migrations"
    /\ last.stmts[2].ok
    /\ \E m \in DOMAIN dir : m > last.markerRead /\ dir[m].actions # <<>>

C14_GetAbsentIsNotFound ==
    [][\A id \in 1..MaxClock :
         (GetMigration(id, "none") /\ id \notin DOMAIN dir)
           => (/\ last'.err # ""
               /\ last'.id = NoId
               /\ last'.err # Get(WriteFile(dir, id, Migration(id, "", <<>>)), id,
                                  "truncated").err)]_vars

\* C15: a Sync run that reads a marker which is not empty and is the id of
\* no migration of the log applies every migration of the log, in ascending
\* id order.
C15_UnknownMarkerAppliesAll ==
    [][(Sync("none", 0) /\ Marker(store) # NoId /\ Marker(store) \notin DOMAIN dir)
         => (/\ last'.markerRead = Marker(store)
             /\ IsPrefix(last'.applied, SortedIds(DOMAIN dir))
             /\ last'.outcome = "Committed"
                  => last'.applied = SortedIds(DOMAIN dir))]_vars

\* The statements a run sent for action k (range index) of migration m, and
\* the actions of the log the last run sent statements for.  No step of
\* NextKeys or NextColumns changes dir without changing last, so after a
\* Sync dir is the log the run read.
ActionStmts(stmts, m, k) ==
    SelectSeq(stmts, LAMBDA e : e.migration = m /\ e.at = k /\ ~IsInsert(e))

AppliedActions(method) ==
    {mk \in (DOMAIN dir) \X (0..(MaxActions + MaxKeyActions)) :
       /\ last.op = "sync"
       /\ mk[2] < Len(dir[mk[1]].actions)
       /\ dir[mk[1]].actions[mk[2] + 1].method = method
       /\ ActionStmts(last.stmts, mk[1], mk[2]) # <<>>}

ParamsOf(mk) == dir[mk[1]].actions[mk[2] + 1].params

\* the key list of the action's table in the snapshot up to and excluding it
PreKeys(mk) ==
    snapshotAsOf(dir, mk[1], mk[2]).snapshot[ParamsOf(mk).table].primaryKeys

HasSql(ss, sql) == \E i \in 1..Len(ss) : ss[i].q.sql = sql

\* C16: for every AddPrimaryKey a run applies, a DROP CONSTRAINT is sent if
\* and only if the table has at least one key column in the snapshot up to
\* and excluding the action.
C16_DropIffKeyExists ==
    \A mk \in AppliedActions("addPrimaryKey") :
       HasSql(ActionStmts(last.stmts, mk[1], mk[2]), "DROP CONSTRAINT")
         <=> Len(PreKeys(mk)) >= 1

\* C17: for every AddPrimaryKey(t, c) a run applies, the ADD CONSTRAINT it
\* sends lists the key columns of t as of just before the action, in their
\* order, followed by c; and when the action is the last of the log and the
\* run commits, the key of t in the store is the key list of the snapshot of
\* the log.
IsLastOfLog(mk) ==
    /\ mk[1] = Greatest(DOMAIN dir)
    /\ mk[2] + 1 = Len(dir[mk[1]].actions)

C17_ConstraintIsKeysPlusNew ==
    \A mk \in AppliedActions("addPrimaryKey") :
       LET ss == ActionStmts(last.stmts, mk[1], mk[2])
           t == ParamsOf(mk).table
       IN  /\ \A i \in 1..Len(ss) :
                ss[i].q.sql = "ADD CONSTRAINT"
                  => ss[i].q.keys = Append(PreKeys(mk), ParamsOf(mk).column)
           /\ (last.outcome = "Committed" /\ IsLastOfLog(mk))
                => store.tables[t].pkey
                     = GetCurrentSnapshot(dir).snapshot[t].primaryKeys

\* C18: for every DeletePrimaryKey(t, c) a run applies, the first statement
\* is the DROP CONSTRAINT of t; when it succeeds and key columns other than
\* c remain, the next and last statement is the ADD CONSTRAINT over the
\* pre-action key columns without c, in their pre-action order, and when
\* that action ends the log and the run commits, that list is the key of t
\* in the store.
C18_DeleteRecreatesRemaining ==
    \A mk \in AppliedActions("deletePrimaryKey") :
       LET ss == ActionStmts(last.stmts, mk[1], mk[2])
           t == ParamsOf(mk).table
           rest == Without(PreKeys(mk), ParamsOf(mk).column)
       IN  /\ ss[1].q = [sql |-> "DROP CONSTRAINT", table |-> t]
           /\ ~ss[1].ok => Len(ss) = 1
           /\ (ss[1].ok /\ rest # <<>>)
                => (/\ Len(ss) = 2
                    /\ ss[2].q = [sql |-> "ADD CONSTRAINT", table |-> t,
                                  keys |-> rest]
                    /\ \A i, j \in 1..Len(rest) :
                         i < j => \E a, b \in 1..Len(PreKeys(mk)) :
                                    /\ a < b
                                    /\ PreKeys(mk)[a] = rest[i]
                                    /\ PreKeys(mk)[b] = rest[j]
                    /\ (ss[2].ok /\ last.outcome = "Committed" /\ IsLastOfLog(mk))
                         => store.tables[t].pkey = rest)

\* a committed run that applied a DeletePrimaryKey on a table with two key
\* columns: the constraint was dropped and created again over the other one
C18_Witness ==
    /\ last.outcome = "Committed"
    /\ \E mk \in AppliedActions("deletePrimaryKey") :
         /\ Len(PreKeys(mk)) = 2
         /\ Contains(PreKeys(mk), ParamsOf(mk).column)
         /\ Len(ActionStmts(last.stmts, mk[1], mk[2])) = 2
         /\ \A i \in 1..2 : ActionStmts(last.stmts, mk[1], mk[2])[i].ok
         /\ IsLastOfLog(mk)
         /\ Len(store.tables[ParamsOf(mk).table].pkey) = 1

\* C19: for every DeletePrimaryKey(t, c) a run applies where c is the only
\* key column of t before the action and the DROP CONSTRAINT succeeded, no
\* ADD CONSTRAINT follows the DROP and the action succeeds (every statement
\* sent for it succeeded).
C19_LastKeyNotRecreated ==
    \A mk \in AppliedActions("deletePrimaryKey") :
       LET ss == ActionStmts(last.stmts, mk[1], mk[2]) IN
       (PreKeys(mk) = <<ParamsOf(mk).column>> /\ ss[1].ok)
         => (/\ ~HasSql(ss, "ADD CONSTRAINT")
             /\ \A i \in 1..Len(ss) : ss[i].ok)

\* C20: for every AddColumn a run applies, the one statement sent is the
\* ADD COLUMN of its table and column with the declared type, with NOT NULL
\* if and only if isNullable is false and with a DEFAULT clause (of the
\* given value) if and only if defaultValue is not empty; a column added by
\* a run that commits has that nullability and default in the store.
StoreColumn(t, c) ==
    CHOOSE col \in {store.tables[t].columns[i] :
                      i \in 1..Len(store.tables[t].columns)} : col.name = c

C20_AddColumnDefinition ==
    \A mk \in AppliedActions("addColumn") :
       LET ss == ActionStmts(last.stmts, mk[1], mk[2])
           p == ParamsOf(mk)
       IN  /\ Len(ss) = 1
           /\ ss[1].q.sql = "ADD COLUMN"
           /\ ss[1].q.table = p.table /\ ss[1].q.column = p.column
           /\ ss[1].q.type = p.type
           /\ ss[1].q.notNullParam \in {"", "NOT NULL"}
           /\ ss[1].q.notNullParam = "NOT NULL" <=> ~p.isNullable
           /\ ss[1].q.defaultValueParam # <<>> <=> p.defaultValue # ""
           /\ p.defaultValue # ""
                => ss[1].q.defaultValueParam = <<"DEFAULT", p.defaultValue>>
           /\ last.outcome = "Committed"
                => (/\ StoreHasColumn(store, p.table, p.column)
                    /\ StoreColumn(p.table, p.column).notNull = ~p.isNullable
                    /\ StoreColumn(p.table, p.column).default = p.defaultValue
                    /\ StoreColumn(p.table, p.column).type = p.type)

\* a committed run that added a NOT NULL column with a default and a
\* nullable column without one
C20_Witness ==
    /\ last.outcome = "Committed"
    /\ \E mk1, mk2 \in AppliedActions("addColumn") :
         /\ ~ParamsOf(mk1).isNullable /\ ParamsOf(mk1).defaultValue # ""
         /\ ParamsOf(mk2).isNullable /\ ParamsOf(mk2).defaultValue = ""
         /\ StoreColumn("users", ParamsOf(mk1).column).notNull
         /\ ~StoreColumn("users", ParamsOf(mk2).column).notNull

\* C21: whatever CreateMigration and AppendAction calls were made one at a
\* time from the empty log (failing ones and same-second creations
\* included), the whole log replays through the fold, and no Sync stops at
\* its sanity replay.
C21_LogReplays ==
    /\ GetCurrentSnapshot(dir).err = ""
    /\ last.op = "sync" => last.outcome # "LeftOpen"

\* a log of two migrations that both hold actions, right after an append
\* that the validation refused
C21_Witness ==
    /\ last.op = "append"
    /\ last.err \in {"ConflictError", "NotFoundError"}
    /\ DOMAIN dir = {1, 2}
    /\ dir[1].actions # <<>>
    /\ dir[2].actions # <<>>
    /\ GetCurrentSnapshot(dir).err = ""

\* C22: of two calls (AppendAction or CreateMigration) that both return
\* success, the second leaves every action the first appended in the log,
\* and an append writes to the migration that is the latest when it
\* returns.  Run one after the other the calls keep this; interleaved at
\* their read, validate and write steps they do not.
IsLogCall(call) == call.op \in {"append", "create"} /\ call.err = ""

C22_SuccessfulCallsKeepActions ==
    [][(IsLogCall(last) /\ IsLogCall(last'))
         => (/\ last.op = "append"
                  => (/\ last.id \in DOMAIN dir'
                      /\ IsPrefix(dir[last.id].actions, dir'[last.id].actions))
             /\ last'.op = "append" => last'.id = Greatest(DOMAIN dir'))]_vars

\* The part of C22 where the second call is an append: it holds of calls
\* run one after the other (Spec) and fails of interleaved calls (SpecRace),
\* where the write of a stale copy of the latest migration drops the action
\* the other caller appended, or lands in a migration that is no longer the
\* latest.
AppendAfterCallKeepsActions ==
    [][(IsLogCall(last) /\ IsLogCall(last') /\ last'.op = "append")
         => (/\ last.op = "append"
                  => IsPrefix(dir[last.id].actions, dir'[last.id].actions)
             /\ last'.id = Greatest(DOMAIN dir'))]_vars

\* C23: in the snapshot of every accepted action sequence the key list of
\* each table has no duplicates and names only columns the table has; an
\* accepted DeleteColumn(t, c) leaves t without column c and with its former
\* key columns other than c, in their former order.
KeysWellFormed(snapshot) ==
    \A t \in DOMAIN snapshot :
       /\ NoDuplicates(snapshot[t].primaryKeys)
       /\ \A i \in 1..Len(snapshot[t].primaryKeys) :
            HasColumn(snapshot[t], snapshot[t].primaryKeys[i])

SameOrder(rest, keys) ==
    \A i, j \in 1..Len(rest) :
       i < j => \E a, b \in 1..Len(keys) :
                  a < b /\ keys[a] = rest[i] /\ keys[b] = rest[j]

KeySet(keys) == {keys[i] : i \in 1..Len(keys)}

C23_SnapshotKeysWellFormed ==
    [][/\ GetCurrentSnapshot(dir').err = ""
       /\ KeysWellFormed(GetCurrentSnapshot(dir').snapshot)
       /\ \A a \in FoldInputs :
            (AppendFoldAction(a) /\ last'.err = "" /\ a.method = "deleteColumn")
              => LET before == GetCurrentSnapshot(dir).snapshot[a.params.table]
                     after == GetCurrentSnapshot(dir').snapshot[a.params.table]
                 IN  /\ ~HasColumn(after, a.params.column)
                     /\ KeySet(after.primaryKeys)
                          = KeySet(before.primaryKeys) \ {a.params.column}
                     /\ Len(after.primaryKeys) = Cardinality(KeySet(after.primaryKeys))
                     /\ SameOrder(after.primaryKeys, before.primaryKeys)]_vars

\* the log ends with an accepted DeleteColumn of the first of two key
\* columns: the snapshot is left with the second
C23_Witness ==
    LET actions == AllActions(GetList(dir))
        before == Fold(SubSeq(actions, 1, Len(actions) - 1)).snapshot
        a == actions[Len(actions)]
    IN  /\ last.op = "append" /\ last.err = ""
        /\ Len(actions) > Len(KeysLog)
        /\ a.method = "deleteColumn"
        /\ Len(before[a.params.table].primaryKeys) = 2
        /\ before[a.params.table].primaryKeys[1] = a.params.column
        /\ GetCurrentSnapshot(dir).snapshot[a.params.table].primaryKeys
             = <<before[a.params.table].primaryKeys[2]>>

====
